---- MODULE Spec2Model ----
(***************************************************************************)
(* tame_your_files: read-only filesystem analysis.                         *)
(*                                                                         *)
(*   file_size_utilities.py   largest_files, files_to_free_space           *)
(*   find_duplicates.py       find_duplicates and its three strategies     *)
(*   visualize_dir.py         get_directory_data                            *)
(*                                                                         *)
(* The filesystem holds one directory /D (a small tree), one regular file  *)
(* /F and nothing at /M.  Every public function is one action: it walks    *)
(* the tree in some scandir order, computes its value as the code does and *)
(* leaves it in result / raised.  Return hands the value to the caller.    *)
(***************************************************************************)
EXTENDS Integers, Sequences, FiniteSets, TLC

VARIABLES fs, pc, call, result, raised, walked, scan

vars == <<fs, pc, call, result, raised, walked, scan>>

(***************************************************************************)
(* Bounds                                                                  *)
(***************************************************************************)
MaxFiles == 3          \* non-directory entries in the tree
MaxFaulty == 1         \* entries that fail a per-entry operation
MaxN == 3              \* largest n asked of largest_files
MaxTarget == 4         \* largest target_bytes asked of files_to_free_space
ChunkSize == 1         \* bytes per f.read(); 4096 in the code, scaled down

MinTarget == 0 - 1

Min(a, b) == IF a <= b THEN a ELSE b

(***************************************************************************)
(* The filesystem                                                          *)
(***************************************************************************)
\* Paths are pathlib-style tuples of parts; an absolute path starts with "/".
Cwd == <<"/">>
RelRoot == <<"D">>
AbsRoot == <<"/", "D">>
MissingRoot == <<"/", "M">>
FileRoot == <<"/", "F">>
RootArgs == {RelRoot, MissingRoot, FileRoot}

\* Entries of the tree, named relative to /D.
FileSlots == {<<"A">>, <<"a">>, <<"b", "a">>, <<"b", "b">>}
DirSlots == {<<"b">>}
Slots == FileSlots \cup DirSlots
TreeTop == << >>

Contents == {<< >>, <<0>>, <<1>>, <<0, 0>>}

\* kind: "file"   regular file, every operation on it succeeds
\*       "locked" regular file, stat succeeds, open() raises PermissionError
\*       "racy"   regular file when listed and tested, gone when stat-ed
\*       "broken" symlink whose target does not exist
\*       "dir"    directory
NoEntry == [kind |-> "none", content |-> << >>]
DirEntry == [kind |-> "dir", content |-> << >>]
FileRootEntry == [kind |-> "file", content |-> <<1>>]
FaultyKinds == {"locked", "racy", "broken"}
\* A locked file is never read: only its size shows.
LockedContents == {<< >>, <<0>>}
Entries ==
    {NoEntry, DirEntry}
      \cup [kind : {"file"}, content : Contents]
      \cup [kind : {"locked"}, content : LockedContents]
      \cup [kind : {"racy", "broken"}, content : {<< >>}]

IsPrefix(p, q) == Len(p) <= Len(q) /\ SubSeq(q, 1, Len(p)) = p

WellFormed(f) ==
    /\ \A d \in DirSlots : f[d] \in {NoEntry, DirEntry}
    /\ \A s \in FileSlots : f[s].kind # "dir"
    /\ \A s \in Slots : \A d \in DirSlots :
          (s # d /\ IsPrefix(d, s) /\ f[d].kind = "none") => f[s].kind = "none"
    /\ Cardinality({s \in FileSlots : f[s].kind # "none"}) <= MaxFiles
    /\ Cardinality({s \in FileSlots : f[s].kind \in FaultyKinds}) <= MaxFaulty

\* Path.resolve() / os.path.abspath: a relative path is taken from the cwd.
resolve(p) == IF Len(p) > 0 /\ p[1] = "/" THEN p ELSE Cwd \o p

Lookup(p) ==
    LET a == resolve(p) IN
      IF a = AbsRoot THEN DirEntry
      ELSE IF a = FileRoot THEN FileRootEntry
      ELSE IF IsPrefix(AbsRoot, a)
                /\ SubSeq(a, Len(AbsRoot) + 1, Len(a)) \in Slots
           THEN fs[SubSeq(a, Len(AbsRoot) + 1, Len(a))]
           ELSE NoEntry

isdir(p) == Lookup(p).kind = "dir"
is_file(p) == Lookup(p).kind \in {"file", "locked", "racy"}
StatOk(p) == Lookup(p).kind \in {"file", "locked", "dir"}
OpenOk(p) == Lookup(p).kind = "file"
st_size(p) == Len(Lookup(p).content)

(***************************************************************************)
(* Directory walks                                                         *)
(***************************************************************************)
Children(d) ==
    {s \in Slots : fs[s].kind # "none" /\ Len(s) = Len(d) + 1 /\ IsPrefix(d, s)}

TreeDirs == {TreeTop} \cup {d \in DirSlots : fs[d].kind = "dir"}

Perms(S) ==
    {q \in [1..Cardinality(S) -> S] : \A i, j \in DOMAIN q : i # j => q[i] # q[j]}

\* One listing per directory: what scandir happens to return.  Neither walk
\* lets the place of a sub-directory among the files show (os.walk splits
\* the listing into dirs and files, the rglob loop drops what is not a
\* file), so a listing is the files in any order, then the directories.
Listings(d) ==
    {fq \o dq : fq \in Perms({c \in Children(d) : fs[c].kind # "dir"}),
                dq \in Perms({c \in Children(d) : fs[c].kind = "dir"})}

Orders ==
    {o \in [TreeDirs -> UNION {Listings(d) : d \in TreeDirs}] :
        \A d \in TreeDirs : o[d] \in Listings(d)}

\* Nothing is listed when the walk does not start from a directory.
NoOrder == << >>
ScanOrders(root) == IF isdir(root) THEN Orders ELSE {NoOrder}

RECURSIVE WalkDirs(_, _)
RECURSIVE WalkEach(_, _, _)
\* Directories in top-down order: a directory, then each sub-directory's walk.
WalkDirs(d, o) == <<d>> \o WalkEach(o[d], 1, o)
WalkEach(listing, i, o) ==
    IF i > Len(listing) THEN << >>
    ELSE (IF fs[listing[i]].kind = "dir" THEN WalkDirs(listing[i], o) ELSE << >>)
           \o WalkEach(listing, i + 1, o)

RECURSIVE Flatten(_)
Flatten(ss) == IF ss = << >> THEN << >> ELSE Head(ss) \o Flatten(Tail(ss))

\* root.glob("*"): the entries of root itself only.
rglob_top_only(root, o) ==
    IF ~isdir(root) THEN << >>
    ELSE [i \in DOMAIN o[TreeTop] |-> root \o o[TreeTop][i]]

\* A walk that yields root itself when root is a file.
rglob_self(root, o) ==
    IF Lookup(root).kind = "none" THEN << >>
    ELSE IF ~isdir(root) THEN <<root>>
    ELSE LET ds == WalkDirs(TreeTop, o) IN
           Flatten([k \in DOMAIN ds |->
                      [i \in DOMAIN o[ds[k]] |-> root \o o[ds[k]][i]]])

\* root.rglob("*"): every entry below root, directory by directory.
rglob(root, o) ==
    IF ~isdir(root) THEN << >>
    ELSE LET ds == WalkDirs(TreeTop, o) IN
           Flatten([k \in DOMAIN ds |->
                      [i \in DOMAIN o[ds[k]] |-> root \o o[ds[k]][i]]])

(***************************************************************************)
(* file_size_utilities.py                                                  *)
(***************************************************************************)
FileInfo(p, s) == [path |-> p, size_bytes |-> s]

CharCode(c) ==
    CASE c = "/" -> 47 [] c = "A" -> 65 [] c = "D" -> 68 [] c = "F" -> 70
      [] c = "M" -> 77 [] c = "a" -> 97 [] c = "b" -> 98

RECURSIVE JoinParts(_)
JoinParts(ps) ==
    IF ps = << >> THEN << >>
    ELSE IF Len(ps) = 1 THEN <<CharCode(ps[1])>>
    ELSE <<CharCode(ps[1]), CharCode("/")>> \o JoinParts(Tail(ps))

\* str(path), as the sequence of its character codes.
str(p) ==
    IF Len(p) > 0 /\ p[1] = "/"
    THEN <<CharCode("/")>> \o JoinParts(Tail(p))
    ELSE JoinParts(p)

RECURSIVE StrLess(_, _)
\* Python's < on strings.
StrLess(s, t) ==
    IF t = << >> THEN FALSE
    ELSE IF s = << >> THEN TRUE
    ELSE IF Head(s) # Head(t) THEN Head(s) < Head(t)
    ELSE StrLess(Tail(s), Tail(t))

\* The two sort keys of the module, as the order they induce:
\*   "size"       key=lambda x: x.size_bytes, reverse=True
\*   "size_path"  key=lambda x: (-x.size_bytes, str(x.path))
KeyBefore(key, x, y) ==
    IF key = "size"
    THEN x.size_bytes > y.size_bytes
    ELSE \/ x.size_bytes > y.size_bytes
         \/ x.size_bytes = y.size_bytes /\ StrLess(str(x.path), str(y.path))

RECURSIVE SortBy(_, _, _)
\* A stable sort of the first k elements of s: elements that tie keep
\* their order in s.
SortBy(s, k, key) ==
    IF k = 0 THEN << >>
    ELSE LET front == SortBy(s, k - 1, key) IN
           IF \E i \in DOMAIN front : KeyBefore(key, s[k], front[i])
           THEN LET i == CHOOSE i \in DOMAIN front :
                           /\ KeyBefore(key, s[k], front[i])
                           /\ \A j \in 1..(i - 1) : ~KeyBefore(key, s[k], front[j])
                IN SubSeq(front, 1, i - 1) \o <<s[k]>> \o SubSeq(front, i, Len(front))
           ELSE Append(front, s[k])

\* The list left in scan order.
sorted_not(s) == s

sorted(s) == SortBy(s, Len(s), "size_path")

\* nlargest without the cut at n.
nlargest_uncapped(n, s) == SortBy(s, Len(s), "size")

\* heapq.nlargest(n, s, key=size): sorted(s, key=size, reverse=True)[:n]
nlargest(n, s) == SubSeq(SortBy(s, Len(s), "size"), 1, Min(n, Len(s)))

RECURSIVE CollectFileInfos(_)
\* The scan loop both functions share.
CollectFileInfos(items) ==
    IF items = << >> THEN << >>
    ELSE LET item == Head(items) IN
           (IF is_file(item) /\ StatOk(item)
            THEN <<FileInfo(resolve(item), st_size(item))>>
            ELSE << >>) \o CollectFileInfos(Tail(items))

largest_files(root, n, o) == sorted(nlargest(n, CollectFileInfos(rglob(root, o))))

RECURSIVE Accumulate_strict(_, _, _, _)
\* The loop with `if total_size > target_bytes`.
Accumulate_strict(sorted_files, result_, total_size, target_bytes) ==
    IF sorted_files = << >> THEN result_
    ELSE LET file_info == Head(sorted_files)
             total == total_size + file_info.size_bytes
         IN IF total > target_bytes
            THEN Append(result_, file_info)
            ELSE Accumulate_strict(Tail(sorted_files), Append(result_, file_info),
                                   total, target_bytes)

RECURSIVE Accumulate(_, _, _, _)
Accumulate(sorted_files, result_, total_size, target_bytes) ==
    IF sorted_files = << >> THEN result_
    ELSE LET file_info == Head(sorted_files)
             total == total_size + file_info.size_bytes
         IN IF total >= target_bytes
            THEN Append(result_, file_info)
            ELSE Accumulate(Tail(sorted_files), Append(result_, file_info),
                            total, target_bytes)

\* The guard with `if target_bytes < 0`.
TargetRejected_negative(target_bytes) == target_bytes < 0

TargetRejected(target_bytes) == target_bytes <= 0

files_to_free_space(root, target_bytes, o) ==
    IF TargetRejected(target_bytes) THEN << >>
    ELSE Accumulate(sorted(CollectFileInfos(rglob(root, o))), << >>, 0, target_bytes)

(***************************************************************************)
(* find_duplicates.py                                                      *)
(***************************************************************************)
Methods == {"name", "size", "content", "hash"}

\* os.walk(directory): one (root, dirs, files) triple per directory, files
\* being every entry of the listing that is not a directory.
os_walk(directory, o) ==
    IF ~isdir(directory) THEN << >>
    ELSE LET ds == WalkDirs(TreeTop, o) IN
           [k \in DOMAIN ds |->
              [root  |-> directory \o ds[k],
               dirs  |-> SelectSeq(o[ds[k]], LAMBDA c : fs[c].kind = "dir"),
               files |-> SelectSeq(o[ds[k]], LAMBDA c : fs[c].kind # "dir")]]

basename(p) == p[Len(p)]

\* os.path.join(root, file) for every file of every triple, in walk order.
WalkedPaths(triples) ==
    Flatten([k \in DOMAIN triples |->
               [i \in DOMAIN triples[k].files |->
                  triples[k].root \o <<basename(triples[k].files[i])>>]])

\* A dict is the sequence of its items, in insertion order.
DictKeys(d) == {d[i].key : i \in DOMAIN d}

\* defaultdict(list): d[key].append(path)
DictAppend(d, key, path) ==
    IF key \in DictKeys(d)
    THEN [i \in DOMAIN d |->
            IF d[i].key = key THEN [d[i] EXCEPT !.paths = Append(@, path)] ELSE d[i]]
    ELSE Append(d, [key |-> key, paths |-> <<path>>])

RECURSIVE Grouped(_, _, _)
\* d[keys[i]].append(paths[i]) for i = 1, 2, ... on top of d
Grouped(keys, paths, d) ==
    IF keys = << >> THEN d
    ELSE Grouped(Tail(keys), Tail(paths), DictAppend(d, Head(keys), Head(paths)))

\* The filter with `if len(paths) > 0`.
MoreThanOne_any(d) == SelectSeq(d, LAMBDA item : Len(item.paths) > 0)

\* {k: paths for k, paths in d.items() if len(paths) > 1}
MoreThanOne(d) == SelectSeq(d, LAMBDA item : Len(item.paths) > 1)

NameKey(file) == file

find_duplicates_by_name(directory, o) ==
    LET paths == WalkedPaths(os_walk(directory, o))
        keys  == [i \in DOMAIN paths |-> NameKey(basename(paths[i]))]
    IN MoreThanOne(Grouped(keys, paths, << >>))

\* os.path.getsize(path) raises OSError when the path cannot be stat-ed.
GetsizeOk(path) == StatOk(path)

\* The size loop skipping empty files.
SizeKept_nonzero(path) == GetsizeOk(path) /\ st_size(path) > 0

SizeKept(path) == GetsizeOk(path)

find_duplicates_by_size(directory, o) ==
    LET paths == SelectSeq(WalkedPaths(os_walk(directory, o)), SizeKept)
        keys  == [i \in DOMAIN paths |-> st_size(paths[i])]
    IN MoreThanOne(Grouped(keys, paths, << >>))

\* hashlib.md5: an accumulator over the bytes fed to it.  Distinct inputs
\* give distinct digests (the byte b is the digit b + 1 in base Md5Base).
Md5Base == 3
Md5Init == 0

RECURSIVE Md5Update(_, _)
Md5Update(h, chunk) ==
    IF chunk = << >> THEN h
    ELSE Md5Update(h * Md5Base + Head(chunk) + 1, Tail(chunk))

RECURSIVE HexDigits(_)
HexDigits(h) == IF h < 16 THEN <<h>> ELSE HexDigits(h \div 16) \o <<h % 16>>

hexdigest(h) == HexDigits(h)

\* f.read(ChunkSize) at offset pos
read(content, pos) == SubSeq(content, pos + 1, Min(pos + ChunkSize, Len(content)))

\* One f.read(ChunkSize) instead of the loop.
ReadChunks_once(content, pos, h) == Md5Update(h, read(content, pos))

RECURSIVE ReadChunks(_, _, _)
\* for chunk in iter(lambda: f.read(4096), b""): hash_md5.update(chunk)
ReadChunks(content, pos, h) ==
    LET chunk == read(content, pos) IN
      IF chunk = << >> THEN h
      ELSE ReadChunks(content, pos + Len(chunk), Md5Update(h, chunk))

FileDigest(path) == hexdigest(ReadChunks(Lookup(path).content, 0, Md5Init))

find_duplicates_by_content(directory, o) ==
    LET paths == SelectSeq(WalkedPaths(os_walk(directory, o)), OpenOk)
        keys  == [i \in DOMAIN paths |-> FileDigest(paths[i])]
    IN MoreThanOne(Grouped(keys, paths, << >>))

\* os.path.exists in place of os.path.isdir.
DirectoryAccepted_exists(directory) == Lookup(directory).kind # "none"

\* The directory test of find_duplicates.
DirectoryAccepted(directory) == isdir(directory)

\* The two checks of find_duplicates in the other order.
find_duplicates_raises_method_first(directory, method) ==
    IF method \notin {"name", "size", "content"} THEN "ValueError"
    ELSE IF ~DirectoryAccepted(directory) THEN "FileNotFoundError"
    ELSE "none"

\* The exception find_duplicates raises, "none" when it returns.
find_duplicates_raises(directory, method) ==
    IF ~DirectoryAccepted(directory) THEN "FileNotFoundError"
    ELSE IF method \in {"name", "size", "content"} THEN "none"
    ELSE "ValueError"

find_duplicates(directory, method, o) ==
    IF method = "name" THEN find_duplicates_by_name(directory, o)
    ELSE IF method = "size" THEN find_duplicates_by_size(directory, o)
    ELSE find_duplicates_by_content(directory, o)

(***************************************************************************)
(* visualize_dir.py                                                        *)
(***************************************************************************)
exists(p) == Lookup(p).kind # "none"

\* os.path.abspath: a relative path is taken from the cwd.
abspath(p) == IF Len(p) > 0 /\ p[1] = "/" THEN p ELSE Cwd \o p

dirname(p) == SubSeq(p, 1, Len(p) - 1)

\* The string "" as a path.
EmptyStr == << >>

\* parent without the test for the root.
parent_of_dirname(root, target_path) == dirname(root)

\* parent = os.path.dirname(root) if root != target_path else ""
parent_of(root, target_path) ==
    IF root # target_path THEN dirname(root) ELSE EmptyStr

\* try: f_size = os.path.getsize(f_path)  except OSError: f_size = 0
f_size(f_path) == IF GetsizeOk(f_path) THEN st_size(f_path) ELSE 0

DataRecord(id, name, parent, value) ==
    [id |-> id, name |-> name, parent |-> parent, value |-> value]

get_directory_data_raises(target_path) ==
    IF ~exists(target_path) THEN "FileNotFoundError" ELSE "none"

\* One folder entry per walked directory, followed by its file entries.
get_directory_data(target_path, o) ==
    LET top == abspath(target_path)
        triples == os_walk(top, o)
    IN Flatten([k \in DOMAIN triples |->
         <<DataRecord(triples[k].root, basename(triples[k].root),
                      parent_of(triples[k].root, top), 0)>>
           \o [i \in DOMAIN triples[k].files |->
                 LET f == basename(triples[k].files[i])
                     f_path == triples[k].root \o <<f>>
                 IN DataRecord(f_path, f, triples[k].root, f_size(f_path))]])

(***************************************************************************)
(* The state machine                                                       *)
(***************************************************************************)
NoCall == [op |-> "none", root |-> << >>, n |-> 0, target_bytes |-> 0, method |-> ""]

Init ==
    /\ fs \in {f \in [Slots -> Entries] : WellFormed(f)}
    /\ pc = "idle"
    /\ call = NoCall
    /\ result = << >>
    /\ raised = "none"
    /\ walked = FALSE
    /\ scan = << >>

LargestFiles ==
    /\ pc = "idle"
    /\ \E root \in RootArgs, n \in 1..MaxN : \E o \in ScanOrders(root) :
         /\ call' = [NoCall EXCEPT !.op = "largest_files", !.root = root, !.n = n]
         /\ result' = largest_files(root, n, o)
         /\ scan' = rglob(root, o)
    /\ raised' = "none"
    /\ walked' = TRUE
    /\ pc' = "done"
    /\ UNCHANGED fs

\* files_to_free_space removing the files it selects.
FilesToFreeSpace_deleting ==
    /\ pc = "idle"
    /\ \E root \in RootArgs, t \in MinTarget..MaxTarget :
       \E o \in (IF TargetRejected(t) THEN {NoOrder} ELSE ScanOrders(root)) :
         /\ call' = [NoCall EXCEPT !.op = "files_to_free_space", !.root = root,
                                   !.target_bytes = t]
         /\ result' = files_to_free_space(root, t, o)
         /\ walked' = ~TargetRejected(t)
         /\ scan' = IF TargetRejected(t) THEN << >> ELSE rglob(root, o)
         /\ fs' = [s \in Slots |->
                     IF \E i \in DOMAIN result' : result'[i].path = AbsRoot \o s
                     THEN NoEntry ELSE fs[s]]
    /\ raised' = "none"
    /\ pc' = "done"

FilesToFreeSpace ==
    /\ pc = "idle"
    /\ \E root \in RootArgs, t \in MinTarget..MaxTarget :
       \E o \in (IF TargetRejected(t) THEN {NoOrder} ELSE ScanOrders(root)) :
         /\ call' = [NoCall EXCEPT !.op = "files_to_free_space", !.root = root,
                                   !.target_bytes = t]
         /\ result' = files_to_free_space(root, t, o)
         /\ walked' = ~TargetRejected(t)
         /\ scan' = IF TargetRejected(t) THEN << >> ELSE rglob(root, o)
    /\ raised' = "none"
    /\ pc' = "done"
    /\ UNCHANGED fs

FindDuplicates ==
    /\ pc = "idle"
    /\ \E directory \in RootArgs, method \in Methods :
       LET exc == find_duplicates_raises(directory, method) IN
         \E o \in (IF exc = "none" THEN ScanOrders(directory) ELSE {NoOrder}) :
           /\ call' = [NoCall EXCEPT !.op = "find_duplicates", !.root = directory,
                                     !.method = method]
           /\ raised' = exc
           /\ walked' = (exc = "none")
           /\ result' = IF exc = "none" THEN find_duplicates(directory, method, o)
                        ELSE << >>
           /\ scan' = IF exc = "none" THEN rglob(directory, o) ELSE << >>
    /\ pc' = "done"
    /\ UNCHANGED fs

FindDuplicatesByName ==
    /\ pc = "idle"
    /\ \E directory \in RootArgs : \E o \in ScanOrders(directory) :
         /\ call' = [NoCall EXCEPT !.op = "find_duplicates_by_name",
                                   !.root = directory, !.method = "name"]
         /\ result' = find_duplicates_by_name(directory, o)
         /\ scan' = rglob(directory, o)
    /\ raised' = "none"
    /\ walked' = TRUE
    /\ pc' = "done"
    /\ UNCHANGED fs

FindDuplicatesBySize ==
    /\ pc = "idle"
    /\ \E directory \in RootArgs : \E o \in ScanOrders(directory) :
         /\ call' = [NoCall EXCEPT !.op = "find_duplicates_by_size",
                                   !.root = directory, !.method = "size"]
         /\ result' = find_duplicates_by_size(directory, o)
         /\ scan' = rglob(directory, o)
    /\ raised' = "none"
    /\ walked' = TRUE
    /\ pc' = "done"
    /\ UNCHANGED fs

FindDuplicatesByContent ==
    /\ pc = "idle"
    /\ \E directory \in RootArgs : \E o \in ScanOrders(directory) :
         /\ call' = [NoCall EXCEPT !.op = "find_duplicates_by_content",
                                   !.root = directory, !.method = "content"]
         /\ result' = find_duplicates_by_content(directory, o)
         /\ scan' = rglob(directory, o)
    /\ raised' = "none"
    /\ walked' = TRUE
    /\ pc' = "done"
    /\ UNCHANGED fs

GetDirectoryData ==
    /\ pc = "idle"
    /\ \E target_path \in RootArgs :
       LET exc == get_directory_data_raises(target_path) IN
         \E o \in (IF exc = "none" THEN ScanOrders(target_path) ELSE {NoOrder}) :
           /\ call' = [NoCall EXCEPT !.op = "get_directory_data",
                                     !.root = target_path]
           /\ raised' = exc
           /\ walked' = (exc = "none")
           /\ result' = IF exc = "none" THEN get_directory_data(target_path, o)
                        ELSE << >>
           /\ scan' = IF exc = "none" THEN rglob(abspath(target_path), o) ELSE << >>
    /\ pc' = "done"
    /\ UNCHANGED fs

\* The caller takes the value; nothing of the call is kept.
Return ==
    /\ pc = "done"
    /\ pc' = "idle"
    /\ call' = NoCall
    /\ result' = << >>
    /\ raised' = "none"
    /\ walked' = FALSE
    /\ scan' = << >>
    /\ UNCHANGED fs

Next ==
    \/ LargestFiles
    \/ FilesToFreeSpace
    \/ FindDuplicates
    \/ FindDuplicatesByName
    \/ FindDuplicatesBySize
    \/ FindDuplicatesByContent
    \/ GetDirectoryData
    \/ Return

Spec == Init /\ [][Next]_vars

(***************************************************************************)
(* What the tree holds, read off fs without walking it                     *)
(***************************************************************************)
Range(q) == {q[i] : i \in DOMAIN q}

RECURSIVE SumSizes(_)
SumSizes(q) == IF q = << >> THEN 0 ELSE Head(q).size_bytes + SumSizes(Tail(q))

RECURSIVE SumOfSet(_)
SumOfSet(S) ==
    IF S = {} THEN 0
    ELSE LET x == CHOOSE x \in S : TRUE IN x.size_bytes + SumOfSet(S \ {x})

\* Regular files that exist under /D, and their (absolute path, size) records.
RegularSlots == {s \in FileSlots : fs[s].kind \in {"file", "locked"}}
ReadableSlots == {s \in FileSlots : fs[s].kind = "file"}
ListedSlots == {s \in FileSlots : fs[s].kind # "none"}
TrueRecords == {FileInfo(AbsRoot \o s, Len(fs[s].content)) : s \in RegularSlots}
TrueTotal == SumOfSet(TrueRecords)

\* x comes before y in the order (size descending, path ascending).
RankedBefore(x, y) ==
    \/ x.size_bytes > y.size_bytes
    \/ x.size_bytes = y.size_bytes /\ StrLess(str(x.path), str(y.path))

\* All regular files, sorted by (size descending, path ascending): the
\* i-th is the one that exactly i - 1 others come before.
RankedFiles ==
    [i \in 1..Cardinality(TrueRecords) |->
        CHOOSE x \in TrueRecords :
            Cardinality({y \in TrueRecords : RankedBefore(y, x)}) = i - 1]

Done(op) == pc = "done" /\ call.op = op
OnTree == isdir(call.root)
Returned(op) == Done(op) /\ OnTree /\ raised = "none"

(***************************************************************************)
(* Size Analyzer                                                           *)
(***************************************************************************)
\* C1: largest_files(root, n) equals the first min(n, number of files)
\* elements of all regular files sorted by (size descending, path
\* ascending), whatever the traversal order, also when files of equal size
\* straddle the cut at position n.
C1_TopNOfRanking ==
    Returned("largest_files") =>
        result = SubSeq(RankedFiles, 1, Min(call.n, Len(RankedFiles)))

\* C2: largest_files(D, n) returns exactly min(n, number of regular files)
\* records, descending by size with equal sizes in ascending path order,
\* each the (absolute path, size) of a regular file that exists under D.
C2_LargestFilesShape ==
    Returned("largest_files") =>
        /\ Len(result) = Min(call.n, Cardinality(TrueRecords))
        /\ \A i, j \in DOMAIN result : i < j => RankedBefore(result[i], result[j])
        /\ \A i \in DOMAIN result : result[i] \in TrueRecords

C2_Witness ==
    /\ Returned("largest_files")
    /\ call.n < Cardinality(TrueRecords)
    /\ Len(result) >= 2
    /\ result[1].size_bytes = result[2].size_bytes

\* C3: for 0 < T <= total size, files_to_free_space(D, T) is a prefix of
\* the files sorted by (size descending, path ascending), its cumulative
\* size is >= T, and without its last element the cumulative size is < T.
C3_GreedyPrefix ==
    (Returned("files_to_free_space")
       /\ 0 < call.target_bytes /\ call.target_bytes <= TrueTotal) =>
        /\ Len(result) >= 1
        /\ Len(result) <= Len(RankedFiles)
        /\ result = SubSeq(RankedFiles, 1, Len(result))
        /\ SumSizes(result) >= call.target_bytes
        /\ SumSizes(SubSeq(result, 1, Len(result) - 1)) < call.target_bytes

C3_Witness ==
    /\ Returned("files_to_free_space")
    /\ 0 < call.target_bytes /\ call.target_bytes <= TrueTotal
    /\ Len(result) = 2
    /\ Cardinality(TrueRecords) = 3
    /\ SumSizes(result) = call.target_bytes

\* C4: when total size >= target_bytes > 0, no subset of the files under
\* root with fewer members than the returned list has a combined size
\* >= target_bytes.
C4_MinimumCount ==
    (Returned("files_to_free_space")
       /\ 0 < call.target_bytes /\ call.target_bytes <= TrueTotal) =>
        \A S \in SUBSET TrueRecords :
            Cardinality(S) < Len(result) => SumOfSet(S) < call.target_bytes

C4_Witness ==
    /\ Returned("files_to_free_space")
    /\ 0 < call.target_bytes /\ call.target_bytes <= TrueTotal
    /\ Len(result) = 2
    /\ Cardinality(TrueRecords) = 3
    /\ \E x, y \in TrueRecords : x.size_bytes # y.size_bytes

\* C5: for a target greater than the sum of all file sizes,
\* files_to_free_space(D, T) returns every regular file under D exactly
\* once, in descending-size order, the returned sizes sum to the true
\* total, and no error is raised.
C5_TargetBeyondTotal ==
    (Done("files_to_free_space") /\ OnTree /\ call.target_bytes > TrueTotal) =>
        /\ raised = "none"
        /\ Range(result) = TrueRecords
        /\ Len(result) = Cardinality(TrueRecords)
        /\ \A i, j \in DOMAIN result :
              i < j => result[i].size_bytes >= result[j].size_bytes
        /\ SumSizes(result) = TrueTotal

C5_Witness ==
    /\ Returned("files_to_free_space")
    /\ call.target_bytes > TrueTotal
    /\ Len(result) = 3
    /\ \E i \in DOMAIN result : Len(result[i].path) = Len(AbsRoot) + 2
    /\ TrueTotal > 0

\* C6: for every target <= 0 and every root (a directory of any contents,
\* a missing path, a path that is not a directory),
\* files_to_free_space(root, T) returns the empty sequence.
C6_NonPositiveTarget ==
    (Done("files_to_free_space") /\ call.target_bytes <= 0) =>
        result = << >> /\ raised = "none"

C6_Witness ==
    /\ Done("files_to_free_space")
    /\ call.target_bytes = 0
    /\ OnTree
    /\ TrueRecords # {}

(***************************************************************************)
(* Duplicate Finder                                                        *)
(***************************************************************************)
\* C7: find_duplicates raises ValueError for every strategy outside
\* {name, size, content} when the directory is valid, and
\* FileNotFoundError for a nonexistent path and for a path to an existing
\* regular file; in both cases before any traversal of the tree.
C7_EagerValidation ==
    Done("find_duplicates") =>
        /\ (isdir(call.root) /\ call.method \notin {"name", "size", "content"})
              => (raised = "ValueError" /\ ~walked)
        /\ call.root \in {MissingRoot, FileRoot}
              => (raised = "FileNotFoundError" /\ ~walked)

C7_Witness ==
    /\ Done("find_duplicates")
    /\ call.root = FileRoot
    /\ call.method = "content"
    /\ raised = "FileNotFoundError"
    /\ ListedSlots # {}

\* The call went through one strategy, directly or by the dispatcher.
Strategy(method) ==
    /\ pc = "done"
    /\ OnTree
    /\ raised = "none"
    /\ call.method = method
    /\ call.op \in {"find_duplicates", "find_duplicates_by_" \o method}

AsWalked(s) == call.root \o s
GroupKeys == DictKeys(result)
GroupOf(key) == result[CHOOSE i \in DOMAIN result : result[i].key = key].paths
InGroup(s, key) ==
    \E i \in DOMAIN result :
        result[i].key = key /\ AsWalked(s) \in Range(result[i].paths)
InSomeGroup(s) == \E key \in GroupKeys : InGroup(s, key)
GroupedTogether(s, t) == \E key \in GroupKeys : InGroup(s, key) /\ InGroup(t, key)
EmptyDigest == hexdigest(Md5Init)

\* C8: find_duplicates(D, "content") puts two readable files in the same
\* group if and only if their byte contents are identical; two empty files
\* are grouped under the empty-input digest; a file whose content no other
\* file shares appears in no group.
C8_ContentGroups ==
    Strategy("content") =>
        /\ \A s, t \in ReadableSlots :
              s # t => (GroupedTogether(s, t) <=> fs[s].content = fs[t].content)
        /\ \A s, t \in ReadableSlots :
              (s # t /\ fs[s].content = << >> /\ fs[t].content = << >>)
                 => (EmptyDigest \in GroupKeys
                       /\ InGroup(s, EmptyDigest) /\ InGroup(t, EmptyDigest))
        /\ \A s \in ListedSlots :
              (\A t \in ReadableSlots \ {s} : fs[t].content # fs[s].content)
                 => ~InSomeGroup(s)

C8_Witness ==
    /\ Strategy("content")
    /\ \E s, t, u \in ReadableSlots :
          /\ s # t
          /\ fs[s].content = << >> /\ fs[t].content = << >>
          /\ Len(fs[u].content) > ChunkSize
          /\ GroupedTogether(s, t)
          /\ ~InSomeGroup(u)

SizedPaths(size) ==
    {AsWalked(s) : s \in {r \in RegularSlots : Len(fs[r].content) = size}}

\* C9: find_duplicates(D, "size") maps each byte size shared by at least
\* two files, 0 included, to a list of exactly all files of that size, each
\* once; a size held by a single file is not a key.
C9_SizeGroups ==
    Strategy("size") =>
        /\ \A size \in GroupKeys : Cardinality(SizedPaths(size)) >= 2
        /\ \A size \in {Len(c) : c \in Contents} :
              IF Cardinality(SizedPaths(size)) >= 2
              THEN /\ size \in GroupKeys
                   /\ Range(GroupOf(size)) = SizedPaths(size)
                   /\ Len(GroupOf(size)) = Cardinality(SizedPaths(size))
              ELSE size \notin GroupKeys

C9_Witness ==
    /\ Strategy("size")
    /\ Cardinality(SizedPaths(0)) = 2
    /\ 0 \in GroupKeys
    /\ Cardinality(RegularSlots) = 3

\* Entries that were regular files when the walk listed them.
RegularWhenListed == {s \in FileSlots : fs[s].kind \in {"file", "locked", "racy"}}
NamedPaths(name) ==
    {AsWalked(s) : s \in {r \in RegularWhenListed : basename(r) = name}}

\* C10: find_duplicates_by_name maps each base name borne by at least two
\* regular files under D to exactly the paths of those regular files,
\* matching names exactly, and contains no entry that is not a regular file.
C10_NameGroups ==
    Strategy("name") =>
        /\ \A name \in GroupKeys : Cardinality(NamedPaths(name)) >= 2
        /\ \A name \in {basename(s) : s \in FileSlots} :
              IF Cardinality(NamedPaths(name)) >= 2
              THEN /\ name \in GroupKeys
                   /\ Range(GroupOf(name)) = NamedPaths(name)
              ELSE name \notin GroupKeys

DuplicateOps ==
    {"find_duplicates", "find_duplicates_by_name", "find_duplicates_by_size",
     "find_duplicates_by_content"}
DuplicatesReturned == pc = "done" /\ raised = "none" /\ call.op \in DuplicateOps

\* No two entries of the tree share the key of the strategy.
NoDuplicates(method) ==
    IF method = "name"
    THEN \A s, t \in ListedSlots : s # t => basename(s) # basename(t)
    ELSE IF method = "size"
    THEN \A s, t \in RegularSlots : s # t => Len(fs[s].content) # Len(fs[t].content)
    ELSE \A s, t \in ReadableSlots : s # t => fs[s].content # fs[t].content

\* C11: for every directory and every strategy, called directly or through
\* find_duplicates, every group of the returned mapping has at least 2
\* member paths; an empty directory and a directory without duplicates
\* yield the empty mapping.
C11_NoSingletonGroups ==
    DuplicatesReturned =>
        /\ \A i \in DOMAIN result : Len(result[i].paths) >= 2
        /\ (OnTree /\ (ListedSlots = {} \/ NoDuplicates(call.method)))
              => result = << >>

C11_Witness ==
    /\ DuplicatesReturned
    /\ OnTree
    /\ Len(result) = 1
    /\ Len(result[1].paths) = 2
    /\ Cardinality(ListedSlots) = 3

SizeOps == {"largest_files", "files_to_free_space"}

\* Entries on which the per-entry operation of the call fails: the stat of
\* the size operations and of the size strategy, the open of the content
\* strategy; a broken symlink for the name strategy, which touches no entry.
FailingSlots ==
    {s \in ListedSlots :
        IF call.op \in SizeOps \/ call.method = "size"
        THEN fs[s].kind \in {"racy", "broken"}
        ELSE IF call.method = "content"
        THEN fs[s].kind \in {"locked", "racy", "broken"}
        ELSE fs[s].kind = "broken"}

KeyOf(s) ==
    IF call.method = "name" THEN basename(s)
    ELSE IF call.method = "size" THEN Len(fs[s].content)
    ELSE fs[s].content

\* C12: in every Size Analyzer operation and every duplicate strategy an
\* entry that fails a per-entry operation (permission denial, broken
\* symlink, mid-scan deletion) raises nothing to the caller, does not stop
\* the traversal (every other file is still processed) and never appears
\* in the returned result.
C12_FailingEntriesSkipped ==
    (pc = "done" /\ OnTree /\ walked /\ call.op \in SizeOps \cup DuplicateOps) =>
        /\ raised = "none"
        /\ call.op \in SizeOps =>
              /\ \A i \in DOMAIN result :
                    \A s \in FailingSlots : result[i].path # AbsRoot \o s
              /\ (call.n >= Cardinality(TrueRecords)
                    \/ call.target_bytes > TrueTotal) => Range(result) = TrueRecords
        /\ call.op \in DuplicateOps =>
              /\ \A s \in FailingSlots : ~InSomeGroup(s)
              /\ \A s, t \in ListedSlots \ FailingSlots :
                    (s # t /\ KeyOf(s) = KeyOf(t)) => GroupedTogether(s, t)

\* C13: when root does not exist or is not a directory, largest_files and
\* files_to_free_space (for any target) raise nothing and return the empty
\* sequence, whereas find_duplicates on the same root raises
\* FileNotFoundError.
C13_BadRoot ==
    (pc = "done" /\ call.root \in {MissingRoot, FileRoot}) =>
        /\ call.op \in SizeOps => (raised = "none" /\ result = << >>)
        /\ call.op = "find_duplicates" => raised = "FileNotFoundError"

C13_Witness ==
    /\ Done("files_to_free_space")
    /\ call.root = FileRoot
    /\ call.target_bytes > 0
    /\ walked
    /\ result = << >>
    /\ TrueRecords # {}

(***************************************************************************)
(* Directory Data Builder                                                  *)
(***************************************************************************)
\* Every entry of the tree, the root included, by absolute path.
TreeIds == {AbsRoot} \cup {AbsRoot \o s : s \in {r \in Slots : fs[r].kind # "none"}}

\* C14: for an existing directory, get_directory_data returns exactly one
\* record per filesystem entry under it (the root, every sub-directory,
\* every file); a directory record has value 0, a file record has the
\* file's byte size, the root record has parent "", and every other
\* record's parent is the id of the record of its containing directory.
C14_OneRecordPerEntry ==
    (Done("get_directory_data") /\ OnTree) =>
        /\ raised = "none"
        /\ {result[i].id : i \in DOMAIN result} = TreeIds
        /\ Len(result) = Cardinality(TreeIds)
        /\ \A i \in DOMAIN result :
              LET e == Lookup(result[i].id) IN
                /\ e.kind = "dir" => result[i].value = 0
                /\ e.kind \in {"file", "locked"} => result[i].value = Len(e.content)
                /\ IF result[i].id = AbsRoot
                   THEN result[i].parent = EmptyStr
                   ELSE /\ result[i].parent = dirname(result[i].id)
                        /\ isdir(result[i].parent)
                        /\ \E j \in DOMAIN result : result[j].id = result[i].parent

C14_Witness ==
    /\ Done("get_directory_data")
    /\ OnTree
    /\ Len(result) >= 4
    /\ \E i \in DOMAIN result :
          /\ Len(result[i].id) = Len(AbsRoot) + 2
          /\ result[i].value > 0

(***************************************************************************)
(* Frame                                                                   *)
(***************************************************************************)
\* The files of this call's listing, in the order met.
ScanFiles == SelectSeq(scan, LAMBDA p : ~isdir(p))

GroupsFromScan(Kept(_), Key(_)) ==
    LET paths == SelectSeq(ScanFiles, Kept)
        keys  == [i \in DOMAIN paths |-> Key(paths[i])]
    IN MoreThanOne(Grouped(keys, paths, << >>))

\* What the call in progress yields, from its arguments, the filesystem as
\* it is now and the listing the call itself obtained.
OutcomeNow ==
    IF call.op = "largest_files"
      THEN sorted(nlargest(call.n, CollectFileInfos(scan)))
    ELSE IF call.op = "files_to_free_space"
      THEN IF call.target_bytes <= 0 THEN << >>
           ELSE Accumulate(sorted(CollectFileInfos(scan)), << >>, 0,
                           call.target_bytes)
    ELSE IF call.op = "get_directory_data"
      THEN IF ~isdir(call.root) THEN << >>
           ELSE <<DataRecord(AbsRoot, basename(AbsRoot), EmptyStr, 0)>>
                \o [i \in DOMAIN scan |->
                      IF isdir(scan[i])
                      THEN DataRecord(scan[i], basename(scan[i]), dirname(scan[i]), 0)
                      ELSE DataRecord(scan[i], basename(scan[i]), dirname(scan[i]),
                                      f_size(scan[i]))]
    ELSE IF ~isdir(call.root) THEN << >>
    ELSE IF call.method = "name"
      THEN GroupsFromScan(LAMBDA p : TRUE, LAMBDA p : NameKey(basename(p)))
    ELSE IF call.method = "size" THEN GroupsFromScan(SizeKept, st_size)
    ELSE IF call.method = "content" THEN GroupsFromScan(OpenOk, FileDigest)
    ELSE << >>

RaisedNow ==
    IF call.op = "find_duplicates"
      THEN IF ~isdir(call.root) THEN "FileNotFoundError"
           ELSE IF call.method \in {"name", "size", "content"} THEN "none"
           ELSE "ValueError"
    ELSE IF call.op = "get_directory_data" /\ ~exists(call.root)
      THEN "FileNotFoundError"
    ELSE "none"

C16_DirectoryCheckFirst ==
    Done("find_duplicates") =>
        /\ (~isdir(call.root) /\ call.method \notin {"name", "size", "content"})
              => raised = "FileNotFoundError"
        /\ raised = "ValueError" => isdir(call.root)

C16_Witness ==
    /\ Done("find_duplicates")
    /\ call.root = MissingRoot
    /\ call.method = "hash"
    /\ raised = "FileNotFoundError"

====
